---- MODULE Spec2Model ----
(***************************************************************************)
(* Model of scripts/gp-error-filter.js: the batch runner (main), the       *)
(* per-file round trip (processFile) and the diagnostic normalizer         *)
(* (extractDiagnostics / mapItem).                                         *)
(*                                                                         *)
(* JavaScript values.  Primitives are strings: "undefined", "null", the    *)
(* numerals "0", "3", "5" for numbers, "" for the empty string and other   *)
(* texts for non-empty strings.  A slot that may hold an object, an array  *)
(* or a primitive holds a record whose `kind` field tells which:           *)
(* "undefined", "null", "primitive" (a number or string), "object" or      *)
(* "array".                                                                *)
(***************************************************************************)
EXTENDS Integers, Sequences, FiniteSets, TLC

\* number of entries in the directory listing of one run
MaxFiles == 2
\* longest `items` array of a diagnostics category in the batch model
MaxItems == 2

UNDEF == "undefined"
NULL == "null"

\* values that are false in a boolean context (a || b, a ? b : c)
Falsy == {UNDEF, NULL, "0", ""}

\* a ?? b
Coalesce(a, b) == IF a \in {UNDEF, NULL} THEN b ELSE a

\* a || b
OrElse(a, b) == IF a \in Falsy THEN b ELSE a

Undefined == [kind |-> "undefined"]
Null == [kind |-> "null"]

\* truthiness of a slot: objects, arrays and the (non-zero, non-empty)
\* primitives used here are truthy
Truthy(v) == v.kind \in {"object", "array", "primitive"}

\* reading a property of null or undefined throws a TypeError
PropertyReadThrows(v) == v.kind \in {"undefined", "null"}

\* a position object {line, col, column, offset} as the importer reports it
Position(l, c, cn, o) ==
    [kind |-> "object", line |-> l, col |-> c, column |-> cn, offset |-> o]

\* v.p where v is a position slot that does not throw on property access
PosField(v, p) == IF v.kind = "object" THEN v[p] ELSE UNDEF

\* a diagnostic item as the importer reports it
Item(c, m, s, st, l, cn, o, e) ==
    [kind |-> "object", code |-> c, message |-> m, severity |-> s,
     start |-> st, line |-> l, column |-> cn, offset |-> o, end |-> e]

\* item.p where item does not throw on property access
ItemField(item, p) == IF item.kind = "object" THEN item[p] ELSE UNDEF

\* item.start, item.end (slots)
ItemSlot(item, p) == IF item.kind = "object" THEN item[p] ELSE Undefined

mapItemStartFlatFirst(item) ==
    LET start == IF Truthy(ItemSlot(item, "start")) THEN ItemSlot(item, "start") ELSE Undefined
        end == ItemSlot(item, "end")
    IN  [code |-> OrElse(ItemField(item, "code"), NULL),
         message |-> OrElse(ItemField(item, "message"), NULL),
         severity |-> IF ItemField(item, "severity") # UNDEF
                      THEN ItemField(item, "severity") ELSE NULL,
         start |-> [line |-> Coalesce(ItemField(item, "line"),
                                 Coalesce(PosField(start, "line"), NULL)),
                    column |-> Coalesce(ItemField(item, "column"),
                                 Coalesce(PosField(start, "col"),
                                   Coalesce(PosField(start, "column"), NULL))),
                    offset |-> Coalesce(ItemField(item, "offset"),
                                 Coalesce(PosField(start, "offset"), NULL))],
         end |-> IF Truthy(end)
                 THEN [kind |-> "object", line |-> PosField(end, "line"),
                       column |-> PosField(end, "col"),
                       offset |-> PosField(end, "offset")]
                 ELSE [kind |-> "null", line |-> UNDEF, column |-> UNDEF,
                       offset |-> UNDEF]]

\* mapItem: one reported item to a Diagnostic Item (defined where the item
\* is not null/undefined; there `item.start` throws, see MapThrows)
mapItem(item) ==
    LET start == IF Truthy(ItemSlot(item, "start")) THEN ItemSlot(item, "start") ELSE Undefined
        end == ItemSlot(item, "end")
    IN  [code |-> OrElse(ItemField(item, "code"), NULL),
         message |-> OrElse(ItemField(item, "message"), NULL),
         severity |-> IF ItemField(item, "severity") # UNDEF
                      THEN ItemField(item, "severity") ELSE NULL,
         start |-> [line |-> Coalesce(PosField(start, "line"),
                                 Coalesce(ItemField(item, "line"), NULL)),
                    column |-> Coalesce(PosField(start, "col"),
                                 Coalesce(PosField(start, "column"),
                                   Coalesce(ItemField(item, "column"), NULL))),
                    offset |-> Coalesce(PosField(start, "offset"),
                                 Coalesce(ItemField(item, "offset"), NULL))],
         end |-> IF Truthy(end)
                 THEN [kind |-> "object", line |-> PosField(end, "line"),
                       column |-> PosField(end, "col"),
                       offset |-> PosField(end, "offset")]
                 ELSE [kind |-> "null", line |-> UNDEF, column |-> UNDEF,
                       offset |-> UNDEF]]

\* items.map(mapItem) throws when an element is null or undefined
MapThrows(elems) == \E k \in 1..Len(elems) : PropertyReadThrows(elems[k])

\* items.map(mapItem)
MapItems(elems) == [k \in 1..Len(elems) |-> mapItem(elems[k])]

\* a diagnostics category {items: [...]} of the failure object
Category(elems) == [kind |-> "object", items |-> [kind |-> "array", elems |-> elems]]
\* a category whose `items` is not an array
CategoryNoArray == [kind |-> "object", items |-> [kind |-> "primitive", elems |-> <<>>]]
CategoryUndefined == [kind |-> "undefined", items |-> [kind |-> "undefined", elems |-> <<>>]]
CategoryNull == [kind |-> "null", items |-> [kind |-> "undefined", elems |-> <<>>]]

\* error.lexerDiagnostics && Array.isArray(error.lexerDiagnostics.items)
HasItems(cat) == Truthy(cat) /\ cat.items.kind = "array"

\* a thrown value that is an object: {message, type, lexerDiagnostics,
\* parserDiagnostics, semanticDiagnostics}
ErrorObject(m, t, lex, par, sem) ==
    [kind |-> "object", message |-> m, type |-> t, lexerDiagnostics |-> lex,
     parserDiagnostics |-> par, semanticDiagnostics |-> sem]

\* a thrown value that is not an object (null, undefined, a string)
ErrorValue(k) ==
    [kind |-> k, message |-> UNDEF, type |-> UNDEF,
     lexerDiagnostics |-> CategoryUndefined,
     parserDiagnostics |-> CategoryUndefined,
     semanticDiagnostics |-> CategoryUndefined]

\* an Error with a message and no diagnostics (fs, loader, exporter)
PlainError(m) ==
    ErrorObject(m, UNDEF, CategoryUndefined, CategoryUndefined, CategoryUndefined)

\* String(error) of a thrown value
StringOf(error) ==
    CASE error.kind = "undefined" -> "undefined"
      [] error.kind = "null" -> "null"
      [] error.kind = "primitive" -> "thrown"
      [] OTHER -> "[object Object]"

\* the try block of extractDiagnostics: the three categories are mapped in
\* order; the first throw leaves the rest of the block unexecuted
MapCategories(error, diag) ==
    IF PropertyReadThrows(error) THEN [thrown |-> TRUE, diag |-> diag]
    ELSE
    LET lex == error.lexerDiagnostics
        par == error.parserDiagnostics
        sem == error.semanticDiagnostics
        d1 == IF HasItems(lex)
              THEN [diag EXCEPT !.lexerErrors = MapItems(lex.items.elems)] ELSE diag
        d2 == IF HasItems(par)
              THEN [d1 EXCEPT !.parserErrors = MapItems(par.items.elems)] ELSE d1
        d3 == IF HasItems(sem)
              THEN [d2 EXCEPT !.semanticErrors = MapItems(sem.items.elems)] ELSE d2
    IN  IF HasItems(lex) /\ MapThrows(lex.items.elems)
        THEN [thrown |-> TRUE, diag |-> diag]
        ELSE IF HasItems(par) /\ MapThrows(par.items.elems)
        THEN [thrown |-> TRUE, diag |-> d1]
        ELSE IF HasItems(sem) /\ MapThrows(sem.items.elems)
        THEN [thrown |-> TRUE, diag |-> d2]
        ELSE [thrown |-> FALSE, diag |-> d3]

\* the initial diag record of extractDiagnostics
InitialDiag(error) ==
    [message |-> IF Truthy(error) /\ error.message \notin Falsy
                 THEN error.message ELSE StringOf(error),
     type |-> IF Truthy(error) /\ error.type # UNDEF THEN error.type ELSE NULL,
     lexerErrors |-> <<>>, parserErrors |-> <<>>, semanticErrors |-> <<>>]

extractDiagnosticsNoCatch(error) ==
    LET r == MapCategories(error, InitialDiag(error))
    IN  [raised |-> r.thrown, diag |-> r.diag]

\* extractDiagnostics: `raised` tells whether the call threw; the catch
\* around the mapping swallows every throw of MapCategories
extractDiagnostics(error) ==
    LET r == MapCategories(error, InitialDiag(error))
    IN  [raised |-> FALSE, diag |-> r.diag]


\* ------------------------------------------------------------------------
\* The batch: main and processFile

VARIABLES
    run,          \* which invocation of the script this is (1 or 2)
    dryRun,       \* opts.dryRun of this invocation
    files,        \* the listing fs.readdir(inDir) returns, with what the
                  \* capabilities will do for each entry
    gp5Files,     \* main: the filtered listing
    i,            \* main: the loop index (number of files completed)
    pc,           \* position in main / processFile
    atex,         \* processFile: the exported text, NULL until exported
    error,        \* processFile: the caught value
    diagnostics,  \* processFile: extractDiagnostics(error)
    results,      \* main: results
    logLines,     \* main: logLines
    fsOps,        \* artifact operations attempted in this invocation
    summary,      \* main: summary, once built
    prevSummary   \* the summary of the first invocation

vars == <<run, dryRun, files, gp5Files, i, pc, atex, error, diagnostics,
          results, logLines, fsOps, summary, prevSummary>>

\* an item with a code and a message and nothing else
SimpleItem ==
    Item("209", "m1", UNDEF, Undefined, UNDEF, UNDEF, UNDEF, Undefined)

\* k copies of SimpleItem
Repeat(k) == [j \in 1..k |-> SimpleItem]

\* the `items` arrays the re-import reports in the batch model: MaxItems
\* well-formed items, or well-formed items followed by a null
BatchItemSeqs == {Repeat(MaxItems), Append(Repeat(MaxItems - 1), Null)}

\* what importer.readScore() throws in the batch model
ReimportErrors ==
    {ErrorObject("parse failed", "AlphaTexError", Category(s),
                 CategoryUndefined, Category(<<SimpleItem>>)) : s \in BatchItemSeqs}

NoError == ErrorValue("undefined")

\* the fate of one listed file: which step of the round trip throws, and
\* what the re-import throws
Fates ==
    [outcome : {"readFail", "loadFail", "exportFail", "pass"}, thrown : {NoError}]
    \cup [outcome : {"reimportFail"}, thrown : ReimportErrors]

FileName(k, e) == [base |-> k, ext |-> e]

\* f.toLowerCase()
ToLowerCase(ext) == IF ext = ".GP5" THEN ".gp5" ELSE ext

\* f => f.toLowerCase().endsWith('.gp5')
IsGp5(entry) == ToLowerCase(entry.name.ext) = ".gp5"

\* files.filter(...)
Filter(listing) == SelectSeq(listing, IsGp5)

\* `${path.basename(fileName, path.extname(fileName))}.atex`
AtexName(fileName) == [base |-> fileName.base, ext |-> ".atex"]

\* the listings of one run: entry k is a .gp5 file with some fate, or a
\* file of another kind
Listings ==
    [1..MaxFiles -> [ext : {".gp5", ".GP5"}, fate : Fates]
                    \cup [ext : {".txt"}, fate : {[outcome |-> "pass", thrown |-> NoError]}]]

EmptySummary == [totalFiles |-> 0, passed |-> 0, failed |-> 0, results |-> <<>>]

\* the first invocation is the one with --dry-run
Init ==
    /\ run = 1
    /\ dryRun = TRUE
    /\ \E l \in Listings :
         files = [k \in 1..MaxFiles |->
                    [name |-> FileName(k, l[k].ext), fate |-> l[k].fate]]
    /\ gp5Files = <<>>
    /\ i = 0
    /\ pc = "start"
    /\ atex = NULL
    /\ error = NoError
    /\ diagnostics = InitialDiag(NoError)
    /\ results = <<>>
    /\ logLines = <<>>
    /\ fsOps = <<>>
    /\ summary = EmptySummary
    /\ prevSummary = EmptySummary

\* the file processFile is working on
Current == gp5Files[i + 1]

ErrorCountLexerParser(diag) ==
    Len(diag.lexerErrors) + Len(diag.parserErrors)

\* errorCount as processFile computes it
ErrorCount(diag) ==
    Len(diag.lexerErrors) + Len(diag.parserErrors) + Len(diag.semanticErrors)

PassedResult(fileName) ==
    [input |-> fileName, atex |-> AtexName(fileName), status |-> "passed"]

FailedResult(fileName, diag) ==
    [input |-> fileName, atex |-> AtexName(fileName), status |-> "failed",
     errorCount |-> ErrorCount(diag), diagnostics |-> diag]

ErrorResult(fileName, e) ==
    [input |-> fileName, status |-> "error", message |-> e.message]

ReturnedLineLexerOnly(fileName, res) ==
    IF res.status = "passed"
    THEN <<fileName, ": PASSED">>
    ELSE <<fileName, ": FAILED (", ToString(Len(res.diagnostics.lexerErrors)), " errors)">>

\* the line main logs for a result processFile returned
ReturnedLine(fileName, res) ==
    IF res.status = "passed"
    THEN <<fileName, ": PASSED">>
    ELSE <<fileName, ": FAILED (", ToString(res.errorCount), " errors)">>

\* the line main logs for a value processFile threw
ThrownLine(fileName, e) == <<fileName, ": ERROR (", e.message, ")">>

MainReturnedPrepend(res) ==
    /\ results' = <<res>> \o results
    /\ logLines' = Append(logLines, ReturnedLine(Current.name, res))
    /\ i' = i + 1
    /\ pc' = "loop"

\* main, try branch: processFile returned res
MainReturned(res) ==
    /\ results' = Append(results, res)
    /\ logLines' = Append(logLines, ReturnedLine(Current.name, res))
    /\ i' = i + 1
    /\ pc' = "loop"

MainCaughtNoPush(e) ==
    /\ logLines' = Append(logLines, ThrownLine(Current.name, e))
    /\ results' = results
    /\ i' = i + 1
    /\ pc' = "loop"

\* main, catch branch: processFile threw e
MainCaught(e) ==
    /\ logLines' = Append(logLines, ThrownLine(Current.name, e))
    /\ results' = Append(results, ErrorResult(Current.name, e))
    /\ i' = i + 1
    /\ pc' = "loop"

\* main up to the loop: ensureDir(outDir), readdir, filter
MainSetup ==
    /\ pc = "start"
    /\ \E ok \in BOOLEAN :
         IF ok
         THEN /\ gp5Files' = Filter(files)
              /\ pc' = "loop"
         ELSE /\ gp5Files' = gp5Files
              /\ pc' = "fatal"
    /\ UNCHANGED <<run, dryRun, files, i, atex, error, diagnostics, results,
                   logLines, fsOps, summary, prevSummary>>

\* main: the loop condition holds, processFile is called
CallProcessFile ==
    /\ pc = "loop"
    /\ i < Len(gp5Files)
    /\ atex' = NULL
    /\ pc' = "readFile"
    /\ UNCHANGED <<run, dryRun, files, gp5Files, i, error, diagnostics,
                   results, logLines, fsOps, summary, prevSummary>>

\* processFile: await fs.readFile(inputPath)
ReadFile ==
    /\ pc = "readFile"
    /\ IF Current.fate.outcome = "readFail"
       THEN /\ error' = PlainError("ENOENT")
            /\ pc' = "catch"
       ELSE /\ error' = error
            /\ pc' = "roundTrip"
    /\ UNCHANGED <<run, dryRun, files, gp5Files, i, atex, diagnostics,
                   results, logLines, fsOps, summary, prevSummary>>

\* processFile: load, export, re-import (synchronous), and the return of
\* the passed result to main
RoundTrip ==
    /\ pc = "roundTrip"
    /\ \/ /\ Current.fate.outcome = "loadFail"
          /\ error' = PlainError("unsupported format")
          /\ pc' = "catch"
          /\ UNCHANGED <<atex, results, logLines, i>>
       \/ /\ Current.fate.outcome = "exportFail"
          /\ error' = PlainError("export failed")
          /\ pc' = "catch"
          /\ UNCHANGED <<atex, results, logLines, i>>
       \/ /\ Current.fate.outcome = "reimportFail"
          /\ atex' = "tex"
          /\ error' = Current.fate.thrown
          /\ pc' = "catch"
          /\ UNCHANGED <<results, logLines, i>>
       \/ /\ Current.fate.outcome = "pass"
          /\ atex' = "tex"
          /\ MainReturned(PassedResult(Current.name))
          /\ UNCHANGED error
    /\ UNCHANGED <<run, dryRun, files, gp5Files, diagnostics, fsOps, summary,
                   prevSummary>>

\* processFile, catch block up to the first await: extractDiagnostics,
\* errorCount, and with dryRun the return of the failed result
Catch ==
    /\ pc = "catch"
    /\ LET r == extractDiagnostics(error)
       IN  /\ diagnostics' = r.diag
           /\ IF r.raised
              THEN MainCaught(PlainError("TypeError"))
              ELSE IF dryRun
              THEN MainReturned(FailedResult(Current.name, r.diag))
              ELSE /\ pc' = "ensureFailedGp5"
                   /\ UNCHANGED <<results, logLines, i>>
    /\ UNCHANGED <<run, dryRun, files, gp5Files, atex, error, fsOps, summary,
                   prevSummary>>

\* one attempted artifact operation: what, for which input file, on which
\* path, and whether it succeeded
FsOp(op, file, target, ok) == [op |-> op, file |-> file, target |-> target, ok |-> ok]

\* processFile: await ensureDir(targetDir), outside any try
EnsureFailedGp5Dir ==
    /\ pc = "ensureFailedGp5"
    /\ \E ok \in BOOLEAN :
         /\ fsOps' = Append(fsOps, FsOp("mkdir", Current.name, "failed_gp5", ok))
         /\ IF ok
            THEN /\ pc' = "copyFile"
                 /\ UNCHANGED <<results, logLines, i>>
            ELSE MainCaught(PlainError("EACCES"))
    /\ UNCHANGED <<run, dryRun, files, gp5Files, atex, error, diagnostics,
                   summary, prevSummary>>

\* processFile: try { await copyFile(inputPath, destPath) } catch { log }
CopyFailedGp5 ==
    /\ pc = "copyFile"
    /\ \E ok \in BOOLEAN :
         fsOps' = Append(fsOps, FsOp("copyFile", Current.name, "failed_gp5", ok))
    /\ pc' = "ensureFailAtex"
    /\ UNCHANGED <<run, dryRun, files, gp5Files, i, atex, error, diagnostics,
                   results, logLines, summary, prevSummary>>

\* processFile: await ensureDir(atexDir), outside any try
EnsureFailAtexDir ==
    /\ pc = "ensureFailAtex"
    /\ \E ok \in BOOLEAN :
         /\ fsOps' = Append(fsOps, FsOp("mkdir", Current.name, "fail_atex", ok))
         /\ IF ok
            THEN /\ pc' = "writeFile"
                 /\ UNCHANGED <<results, logLines, i>>
            ELSE MainCaught(PlainError("EACCES"))
    /\ UNCHANGED <<run, dryRun, files, gp5Files, atex, error, diagnostics,
                   summary, prevSummary>>

\* processFile: try { await fs.writeFile(atexPath, atex) } catch { log },
\* then the return of the failed result to main.  fs.writeFile rejects a
\* null data argument.
WriteFailAtex ==
    /\ pc = "writeFile"
    /\ \E ok \in BOOLEAN :
         /\ atex = NULL => ~ok
         /\ fsOps' = Append(fsOps, FsOp("writeFile", Current.name, "fail_atex", ok))
    /\ MainReturned(FailedResult(Current.name, diagnostics))
    /\ UNCHANGED <<run, dryRun, files, gp5Files, atex, error, diagnostics,
                   summary, prevSummary>>

\* results.filter(r => r.status === s).length
CountStatus(rs, s) == Cardinality({k \in 1..Len(rs) : rs[k].status = s})

\* main after the loop: the summary, then the report and the log are written
Finish ==
    /\ pc = "loop"
    /\ i >= Len(gp5Files)
    /\ summary' = [totalFiles |-> Len(gp5Files),
                   passed |-> CountStatus(results, "passed"),
                   failed |-> CountStatus(results, "failed"),
                   results |-> results]
    /\ \E ok \in BOOLEAN : pc' = IF ok THEN "done" ELSE "fatal"
    /\ UNCHANGED <<run, dryRun, files, gp5Files, i, atex, error, diagnostics,
                   results, logLines, fsOps, prevSummary>>

\* the script is invoked again on the same corpus, without --dry-run
NextRun ==
    /\ pc = "done"
    /\ run = 1
    /\ run' = 2
    /\ dryRun' = FALSE
    /\ prevSummary' = summary
    /\ gp5Files' = <<>>
    /\ i' = 0
    /\ pc' = "start"
    /\ atex' = NULL
    /\ error' = NoError
    /\ diagnostics' = InitialDiag(NoError)
    /\ results' = <<>>
    /\ logLines' = <<>>
    /\ fsOps' = <<>>
    /\ summary' = EmptySummary
    /\ UNCHANGED files

Next ==
    \/ MainSetup
    \/ CallProcessFile
    \/ ReadFile
    \/ RoundTrip
    \/ Catch
    \/ EnsureFailedGp5Dir
    \/ CopyFailedGp5
    \/ EnsureFailAtexDir
    \/ WriteFailAtex
    \/ Finish
    \/ NextRun

Spec == Init /\ [][Next]_vars


\* ------------------------------------------------------------------------
\* The normalizer on its own: a value is thrown, extractDiagnostics is
\* applied to it

\* reported items of the structural cases: well-formed, null, a number
PrimitiveItem == [kind |-> "primitive"]
SmallItems == {SimpleItem, Null, PrimitiveItem}

\* all sequences over S of length at most n
RECURSIVE SeqsUpTo(_, _)
SeqsUpTo(S, n) ==
    IF n = 0 THEN {<<>>}
    ELSE LET shorter == SeqsUpTo(S, n - 1)
         IN  shorter \cup {Append(s, x) : s \in {t \in shorter : Len(t) = n - 1}, x \in S}

CategoryShapes ==
    {CategoryUndefined, CategoryNull, CategoryNoArray}
    \cup {Category(s) : s \in SeqsUpTo(SmallItems, MaxItems)}

\* failure values that differ in structure
StructuralErrors ==
    {ErrorValue("null"), ErrorValue("undefined"), ErrorValue("primitive")}
    \cup {ErrorObject(m, t, CategoryUndefined, CategoryUndefined, CategoryUndefined) :
            m \in {UNDEF, "", "boom"}, t \in {UNDEF, "0", "AlphaTexError"}}
    \cup {ErrorObject("boom", UNDEF, lex, par, sem) :
            lex \in CategoryShapes, par \in CategoryShapes, sem \in CategoryShapes}

\* position slots of a reported item
StartSlots ==
    {Undefined, Null}
    \cup {Position(l, c, cn, o) : l \in {UNDEF, NULL, "0", "3"}, c \in {UNDEF, NULL, "0", "5"},
                                  cn \in {UNDEF, NULL, "0", "5"}, o \in {UNDEF, NULL, "7"}}
EndSlots ==
    {Undefined, Null}
    \cup {Position(l, c, cn, o) : l \in {UNDEF, "3"}, c \in {UNDEF, NULL, "0", "5"},
                                  cn \in {UNDEF, "0", "5"}, o \in {UNDEF, "9"}}

\* reported items that differ in their fields
RichItems ==
    {Item("209", "m1", UNDEF, st, l, cn, o, Undefined) :
        st \in StartSlots, l \in {UNDEF, NULL, "3", "4"}, cn \in {UNDEF, NULL, "5", "6"},
        o \in {UNDEF, NULL, "8"}}
    \cup {Item("209", "m1", UNDEF, Undefined, UNDEF, UNDEF, UNDEF, e) : e \in EndSlots}
    \cup {Item(c, m, s, Undefined, UNDEF, UNDEF, UNDEF, Undefined) :
            c \in {UNDEF, "0", "209"}, m \in {UNDEF, "", "m1"}, s \in {UNDEF, NULL, "0", "2"}}

\* failure values carrying one lexer item
ItemErrors ==
    {ErrorObject("boom", UNDEF, Category(<<it>>), CategoryUndefined, CategoryUndefined) :
        it \in RichItems}

InitDiag ==
    /\ run = 1
    /\ dryRun = TRUE
    /\ files = <<>>
    /\ gp5Files = <<>>
    /\ i = 0
    /\ pc = "thrown"
    /\ atex = NULL
    /\ error \in StructuralErrors \cup ItemErrors
    /\ diagnostics = InitialDiag(NoError)
    /\ results = <<>>
    /\ logLines = <<>>
    /\ fsOps = <<>>
    /\ summary = EmptySummary
    /\ prevSummary = EmptySummary

\* const diagnostics = extractDiagnostics(error)
ExtractDiagnostics ==
    /\ pc = "thrown"
    /\ LET r == extractDiagnostics(error)
       IN  /\ diagnostics' = r.diag
           /\ pc' = IF r.raised THEN "raised" ELSE "extracted"
    /\ UNCHANGED <<run, dryRun, files, gp5Files, i, atex, error, results,
                   logLines, fsOps, summary, prevSummary>>

NextDiag == ExtractDiagnostics

SpecDiag == InitDiag /\ [][NextDiag]_vars


\* ------------------------------------------------------------------------
\* Properties of the batch (checked under Spec)

\* positions of processFile
FileStages ==
    {"readFile", "roundTrip", "catch", "ensureFailedGp5", "copyFile",
     "ensureFailAtex", "writeFile"}

\* some artifact operation attempted for this input file failed
PersistenceFailed(fileName) ==
    \E j \in 1..Len(fsOps) : fsOps[j].file = fileName /\ ~fsOps[j].ok

\* C1: a file whose read, load or export throws (the failure happens before
\* the re-import) is recorded with status `error` and a message, never
\* `failed`.
C1_EarlyFailureIsError ==
    \A k \in 1..Len(results) :
        gp5Files[k].fate.outcome \in {"readFail", "loadFail", "exportFail"}
            => /\ results[k].status = "error"
               /\ "message" \in DOMAIN results[k]

\* C2: when the re-import of a file has failed and a step of persisting its
\* artifacts (creating failed_gp5 or fail_atex, copying the input, writing
\* the exported text) fails, the file is still recorded as `failed` with its
\* errorCount and diagnostics, and the batch goes on to the next file.
C2_PersistenceFailureKeepsFailed ==
    /\ \A k \in 1..Len(results) :
         (gp5Files[k].fate.outcome = "reimportFail" /\ PersistenceFailed(gp5Files[k].name))
             => /\ results[k].status = "failed"
                /\ {"errorCount", "diagnostics"} \subseteq DOMAIN results[k]
    /\ pc = "done" => Len(results) = Len(gp5Files)

\* C3: on the same corpus with the same outcomes of load, export and
\* re-import, the dry-run and the non-dry-run invocation build the same
\* Batch Result whatever the persistence operations do, and the dry-run
\* invocation attempts no artifact operation.
C3_DryRunSameBatchResult ==
    /\ dryRun => fsOps = <<>>
    /\ (run = 2 /\ pc = "done") => summary = prevSummary

\* C4: in every Batch Result the length of `results` equals `totalFiles` and
\* passed + failed <= totalFiles, passed and failed being the numbers of
\* results with those statuses.
C4_BatchResultCounts ==
    pc \in {"done", "fatal"} =>
        /\ Len(summary.results) = summary.totalFiles
        /\ summary.passed + summary.failed <= summary.totalFiles
        /\ summary.passed =
             Cardinality({k \in 1..Len(summary.results) : summary.results[k].status = "passed"})
        /\ summary.failed =
             Cardinality({k \in 1..Len(summary.results) : summary.results[k].status = "failed"})

\* a finished run over a corpus in which one file errored and another did not
C4_Witness ==
    /\ pc = "done"
    /\ summary.totalFiles >= 2
    /\ \E k \in 1..Len(summary.results) : summary.results[k].status = "error"
    /\ summary.passed + summary.failed >= 1
    /\ summary.passed + summary.failed < summary.totalFiles

\* C5: files are processed one at a time in listing order and no failure or
\* error stops the batch: while file i+1 is being processed exactly the
\* results of files 1..i have been appended, entry k of `results` is the
\* result of the k-th listed file, and at the end every listed file has its
\* entry.
C5_ListingOrder ==
    /\ pc \in FileStages \cup {"loop", "done"} => Len(results) = i
    /\ pc \in FileStages => i < Len(gp5Files)
    /\ \A k \in 1..Len(results) :
         k <= Len(gp5Files) /\ results[k].input = gp5Files[k].name
    /\ pc = "done" => Len(results) = Len(gp5Files)

\* a finished run in which a file after an errored and after a failed file
\* was still processed
C5_Witness ==
    /\ pc = "done"
    /\ Len(results) = Len(gp5Files)
    /\ \E k \in 1..(Len(results) - 1) : results[k].status \in {"error", "failed"}
    /\ \E k \in 1..(Len(results) - 1) : results[k].input # results[k + 1].input

\* C6: a File Result with status `failed` has errorCount equal to the sum of
\* the lengths of its three diagnostic sequences.
C6_ErrorCountIsSum ==
    \A k \in 1..Len(results) :
        results[k].status = "failed" =>
            results[k].errorCount =
                Len(results[k].diagnostics.lexerErrors)
                + Len(results[k].diagnostics.parserErrors)
                + Len(results[k].diagnostics.semanticErrors)

\* a failed result with items in two categories
C6_Witness ==
    \E k \in 1..Len(results) :
        /\ results[k].status = "failed"
        /\ Len(results[k].diagnostics.lexerErrors) > 0
        /\ Len(results[k].diagnostics.semanticErrors) > 0
        /\ results[k].errorCount > 1

\* the log line the report format prescribes for a File Result
PrescribedLine(res) ==
    CASE res.status = "passed" -> <<res.input, ": PASSED">>
      [] res.status = "failed" ->
            <<res.input, ": FAILED (", ToString(res.errorCount), " errors)">>
      [] res.status = "error" -> <<res.input, ": ERROR (", res.message, ")">>

\* C7: the flat log has one line per File Result, in the order of `results`,
\* and line k has the form prescribed by the status of results[k].
C7_LogLines ==
    /\ Len(logLines) = Len(results)
    /\ \A k \in 1..Len(results) : logLines[k] = PrescribedLine(results[k])

\* a log with an ERROR line and a FAILED line counting more errors than the
\* lexer reported
C7_Witness ==
    /\ \E k \in 1..Len(logLines) : logLines[k][2] = ": ERROR ("
    /\ \E k \in 1..Len(logLines) :
         /\ logLines[k][2] = ": FAILED ("
         /\ results[k].errorCount > Len(results[k].diagnostics.lexerErrors)

\* ------------------------------------------------------------------------
\* Properties of the normalizer (checked under SpecDiag)

CategoryNames == <<"lexerDiagnostics", "parserDiagnostics", "semanticDiagnostics">>
SequenceNames == <<"lexerErrors", "parserErrors", "semanticErrors">>

\* mapping category n of the failure value throws
MappingFails(e, n) ==
    /\ HasItems(e[CategoryNames[n]])
    /\ MapThrows(e[CategoryNames[n]].items.elems)

\* C8: the normalizer never raises; for every failure value the three
\* categories of its result are sequences, a category that is absent, not an
\* array, or whose mapping failed is empty, and a category mapped before the
\* failure keeps one Diagnostic Item per reported item.
C8_NormalizerNeverRaises ==
    /\ pc # "raised"
    /\ pc = "extracted" =>
         \A n \in 1..3 :
            LET out == diagnostics[SequenceNames[n]]
                cat == error[CategoryNames[n]]
            IN  /\ DOMAIN out = 1..Len(out)
                /\ PropertyReadThrows(error) => out = <<>>
                /\ ~HasItems(cat) => out = <<>>
                /\ MappingFails(error, n) => out = <<>>
                /\ (/\ ~PropertyReadThrows(error)
                    /\ HasItems(cat)
                    /\ \A m \in 1..n : ~MappingFails(error, m))
                      => /\ Len(out) = Len(cat.items.elems)
                         /\ \A k \in 1..Len(out) :
                              DOMAIN out[k].start = {"line", "column", "offset"}

\* lexer items were mapped, then the mapping of the parser items failed
C8_Witness ==
    /\ pc = "extracted"
    /\ Len(diagnostics.lexerErrors) > 0
    /\ MappingFails(error, 2)
    /\ diagnostics.parserErrors = <<>>

\* the first value of a list that is neither null nor undefined, else null
RECURSIVE FirstNonNull(_)
FirstNonNull(vs) ==
    IF vs = <<>> THEN NULL
    ELSE IF Head(vs) \notin {NULL, UNDEF} THEN Head(vs)
    ELSE FirstNonNull(Tail(vs))

ExampleNested ==
    Item("209", "m1", UNDEF, Position("3", "5", UNDEF, UNDEF), UNDEF, UNDEF, UNDEF, Undefined)
ExampleFlat ==
    Item("209", "m1", UNDEF, Undefined, "3", "5", UNDEF, Undefined)

\* the reported lexer items of the thrown value, once they have been mapped
MappedLexerItems ==
    IF pc = "extracted" /\ ~PropertyReadThrows(error)
       /\ HasItems(error.lexerDiagnostics) /\ ~MappingFails(error, 1)
    THEN error.lexerDiagnostics.items.elems
    ELSE <<>>

\* C9: line, column and offset of a normalized item's `start` are each the
\* first non-null value among the nested start object's fields (col before
\* column) and then the flat field of the item, null when there is none;
\* {start:{line:3,col:5}} and flat {line:3,column:5} both give
\* start = {line:3, column:5, offset:null}.
C9_StartResolution ==
    \A k \in 1..Len(MappedLexerItems) :
        LET item == MappedLexerItems[k]
            st == ItemSlot(item, "start")
            out == diagnostics.lexerErrors[k]
        IN  /\ out.start.line =
                 FirstNonNull(<<PosField(st, "line"), ItemField(item, "line")>>)
            /\ out.start.column =
                 FirstNonNull(<<PosField(st, "col"), PosField(st, "column"),
                                ItemField(item, "column")>>)
            /\ out.start.offset =
                 FirstNonNull(<<PosField(st, "offset"), ItemField(item, "offset")>>)
            /\ item \in {ExampleNested, ExampleFlat}
                 => out.start = [line |-> "3", column |-> "5", offset |-> NULL]

\* an item whose nested start has no col, a column, and a different flat
\* column: the nested column wins
C9_Witness ==
    /\ Len(MappedLexerItems) = 1
    /\ LET item == MappedLexerItems[1]
       IN  /\ ItemSlot(item, "start").kind = "object"
           /\ item.start.col = NULL
           /\ item.start.column = "5"
           /\ item.column = "6"
           /\ diagnostics.lexerErrors[1].start.column = "5"

\* C10: an item whose `end` gives its column under the name `column`
\* normalizes to the same end as one that gives it under `col`, and an item
\* without `end` normalizes to a null end.
C10_EndResolution ==
    \A k \in 1..Len(MappedLexerItems) :
        LET item == MappedLexerItems[k]
            end == ItemSlot(item, "end")
            out == diagnostics.lexerErrors[k]
        IN  /\ (end.kind = "object" /\ end.col = UNDEF)
                 => out.end = mapItem([item EXCEPT !.end.col = end.column,
                                                   !.end.column = UNDEF]).end
            /\ end.kind \in {"undefined", "null"} => out.end.kind = "null"

====
